---- MODULE Spec2Model ----
(***************************************************************************)
(* Model of stattests.py: the metric aggregators (ratio, bernoulli,        *)
(* user-level), the ratio linearization, the dispatch function             *)
(* calculate_statistics and the three estimators.                          *)
(*                                                                         *)
(* A data frame is a function from column names to columns; a column is a  *)
(* sequence indexed by row position.  The numeric results of true division *)
(* are exact rationals <<p, q>> in lowest terms with q > 0, extended with  *)
(* the non-finite values numpy produces on a zero divisor: <<1, 0>> (inf), *)
(* <<-1, 0>> (-inf) and <<0, 0>> (nan).  Rounding of binary floating point *)
(* is not modelled.                                                        *)
(***************************************************************************)
EXTENDS Integers, Sequences, FiniteSets, TLC

\* ---------------------------------------------------------------- bounds
\* the largest number of rows of a frame
MaxRows == 3

\* cfg.VARIANT_COL: the configured name of the variant column
VARIANT_COL == "variant"

Variants == {"A", "B"}

\* <<num, den, n>> of a row: den = n on the first four, den # n with a
\* positive den on the next two, den = 0 on the last; n = 2 is a
\* pre-aggregated row; num = 2 is a count, not a 0/1 indicator
RowVals ==
    {<<0, 1, 1>>, <<1, 1, 1>>, <<1, 2, 2>>, <<2, 2, 2>>,
     <<1, 2, 1>>, <<2, 1, 1>>,
     <<1, 0, 1>>}

\* the rows of the frames the estimators are run on
EstRowVals == {<<0, 1, 1>>, <<1, 1, 1>>, <<2, 1, 2>>}

None == "None"

VARIABLES df, df0, type, pc, stat, calls, lib, est, log

vars == <<df, df0, type, pc, stat, calls, lib, est, log>>

\* ------------------------------------------------------ float arithmetic
Abs(x) == IF x < 0 THEN -x ELSE x

Sign(x) == IF x < 0 THEN -1 ELSE IF x = 0 THEN 0 ELSE 1

RECURSIVE GCD(_, _)
GCD(a, b) == IF b = 0 THEN a ELSE GCD(b, a % b)

\* the float with value p/q; q = 0 gives inf, -inf or nan by the sign of p
RNorm(p, q) ==
    IF q = 0 THEN <<Sign(p), 0>>
    ELSE LET g == GCD(Abs(p), Abs(q))
             s == IF q < 0 THEN -1 ELSE 1
         IN  <<(s * p) \div g, (s * q) \div g>>

Float(i) == <<i, 1>>

NaN == <<0, 0>>

IsNaN(r) == r = <<0, 0>>

IsFinite(r) == r[2] # 0

\* numpy true division of two integers (a zero divisor warns, never raises)
TrueDiv(a, b) == RNorm(a, b)

RMul(a, b) == RNorm(a[1] * b[1], a[2] * b[2])

RNeg(a) == <<-a[1], a[2]>>

RAdd(a, b) ==
    IF a[2] # 0 /\ b[2] # 0 THEN RNorm(a[1] * b[2] + b[1] * a[2], a[2] * b[2])
    ELSE IF a[2] # 0 THEN b
    ELSE IF b[2] # 0 THEN a
    ELSE IF a = b THEN a ELSE NaN

RSub(a, b) == RAdd(a, RNeg(b))

\* a <= b for finite a, b
RLeq(a, b) == a[1] * b[2] <= b[1] * a[2]

\* --------------------------------------------------------- series helpers
RECURSIVE SumInt(_)
SumInt(s) == IF s = <<>> THEN 0 ELSE Head(s) + SumInt(Tail(s))

RECURSIVE SumFloat(_)
SumFloat(s) == IF s = <<>> THEN Float(0) ELSE RAdd(Head(s), SumFloat(Tail(s)))

\* mutant of Unique: the distinct values sorted (numpy.unique), not in order
\* of first appearance
Unique_sorted(s) ==
    LET vals == {s[i] : i \in 1 .. Len(s)}
    IN  (IF "A" \in vals THEN <<"A">> ELSE <<>>) \o
        (IF "B" \in vals THEN <<"B">> ELSE <<>>)

\* Series.unique(): the distinct values in order of first appearance
RECURSIVE Unique(_)
Unique(s) ==
    IF s = <<>> THEN <<>>
    ELSE LET u == Unique(SubSeq(s, 1, Len(s) - 1))
             x == s[Len(s)]
         IN  IF \E j \in 1 .. Len(u) : u[j] = x THEN u ELSE Append(u, x)

\* the row positions selected by the mask d[VARIANT_COL] == v, ascending
RECURSIVE MaskIdx(_, _, _)
MaskIdx(d, v, i) ==
    IF i > Len(d[VARIANT_COL]) THEN <<>>
    ELSE IF d[VARIANT_COL][i] = v THEN <<i>> \o MaskIdx(d, v, i + 1)
    ELSE MaskIdx(d, v, i + 1)

\* the entries of a column at the row positions idx
SelectCol(c, idx) == [j \in 1 .. Len(idx) |-> c[idx[j]]]

\* d[col][d[VARIANT_COL] == v]: the masked rows of a column, in row order
Masked(d, col, v) ==
    SelectCol(d[col], MaskIdx(d, v, 1))

\* d.loc[d[VARIANT_COL] == v, col] = vals: vals is aligned with the masked
\* rows, so row i takes the value at its rank among the masked rows
LocAssign(d, col, v, vals) ==
    [c \in DOMAIN d |->
        IF c # col THEN d[c]
        ELSE [i \in 1 .. Len(d[col]) |->
                 IF d[VARIANT_COL][i] = v
                 THEN vals[Cardinality({j \in 1 .. i : d[VARIANT_COL][j] = v})]
                 ELSE d[col][i]]]

\* sum of squared deviations from mean, divided by m - 1
SampleVar(ys, mean) ==
    RMul(SumFloat([j \in 1 .. Len(ys) |->
                      RMul(RSub(ys[j], mean), RSub(ys[j], mean))]),
         RNorm(1, Len(ys) - 1))

DropNaN(s) == SelectSeq(s, LAMBDA x : ~IsNaN(x))

\* Series.var(): sample variance (ddof = 1), nan entries skipped; nan when
\* fewer than two entries remain
VarOf(ys) ==
    IF Len(ys) < 2 THEN NaN
    ELSE SampleVar(ys, RMul(SumFloat(ys), RNorm(1, Len(ys))))

Var(s) == VarOf(DropNaN(s))

ToFloat(s) == [j \in 1 .. Len(s) |-> Float(s[j])]

\* ------------------------------------------------------------ the records
EstimatorCriteriaValues(pvalue, statistic) ==
    [pvalue |-> pvalue, statistic |-> statistic]

Statistics(mean_0, mean_1, var_0, var_1, n_0, n_1, num_0, num_1, den_0, den_1) ==
    [mean_0 |-> mean_0, mean_1 |-> mean_1, var_0 |-> var_0, var_1 |-> var_1,
     n_0 |-> n_0, n_1 |-> n_1, num_0 |-> num_0, num_1 |-> num_1,
     den_0 |-> den_0, den_1 |-> den_1]

\* ---------------------------------------------------------- linearization
\* mutant of Linearization: k pooled over both variants
Linearization_pooled(num_0, den_0, num_1, den_1) ==
    LET k == TrueDiv(SumInt(num_0) + SumInt(num_1), SumInt(den_0) + SumInt(den_1))
        l_0 == [j \in 1 .. Len(num_0) |->
                   RSub(Float(num_0[j]), RMul(k, Float(den_0[j])))]
        l_1 == [j \in 1 .. Len(num_1) |->
                   RSub(Float(num_1[j]), RMul(k, Float(den_1[j])))]
    IN  <<l_0, l_1>>

\* Linearization.__call__: <<l_0, l_1>>
Linearization(num_0, den_0, num_1, den_1) ==
    LET k == TrueDiv(SumInt(num_0), SumInt(den_0))
        l_0 == [j \in 1 .. Len(num_0) |->
                   RSub(Float(num_0[j]), RMul(k, Float(den_0[j])))]
        l_1 == [j \in 1 .. Len(num_1) |->
                   RSub(Float(num_1[j]), RMul(k, Float(den_1[j])))]
    IN  <<l_0, l_1>>

\* df['l_ratio'] = 0: the column is created on (or overwritten in) the frame
SetColumn(d, col, v) ==
    [c \in DOMAIN d \cup {col} |->
        IF c = col THEN [i \in 1 .. Len(d[VARIANT_COL]) |-> v] ELSE d[c]]

\* the skip branch of calculate_linearization: l_ratio := num, per variant
LinearizationSkip(d1, _variants) ==
    LocAssign(LocAssign(d1, "l_ratio", _variants[1],
                        ToFloat(Masked(d1, "num", _variants[1]))),
              "l_ratio", _variants[2], ToFloat(Masked(d1, "num", _variants[2])))

\* the two assignments of the else branch of calculate_linearization
LinearizationAssign(d1, _variants, l) ==
    LocAssign(LocAssign(d1, "l_ratio", _variants[1], l[1]),
              "l_ratio", _variants[2], l[2])

\* the else branch of calculate_linearization
LinearizationActive(d1, _variants) ==
    LinearizationAssign(d1, _variants,
        Linearization(Masked(d1, "num", _variants[1]),
                      Masked(d1, "den", _variants[1]),
                      Masked(d1, "num", _variants[2]),
                      Masked(d1, "den", _variants[2])))

\* mutant of DenEqualsN: .any() in place of .all()
DenEqualsN_any(d) == \E i \in 1 .. Len(d["den"]) : d["den"][i] = d["n"][i]

\* (df['den'] == df['n']).all()
DenEqualsN(d) == \A i \in 1 .. Len(d["den"]) : d["den"][i] = d["n"][i]

\* calculate_linearization: the frame it was given, with l_ratio filled in,
\* and the calls it made
calculate_linearization(d) ==
    IF DenEqualsN(d)
    THEN [df |-> LinearizationSkip(SetColumn(d, "l_ratio", Float(0)),
                                   Unique(d[VARIANT_COL])),
          calls |-> <<"calculate_linearization">>]
    ELSE [df |-> LinearizationActive(SetColumn(d, "l_ratio", Float(0)),
                                     Unique(d[VARIANT_COL])),
          calls |-> <<"calculate_linearization", "Linearization">>]

\* ------------------------------------------------------------ aggregators
\* each returns the Statistics record, the frame as the call leaves the
\* caller's object, and the calls made

\* mutant of RatioStatistics: mean_1 divides by the control's sum of den
RatioStatistics_controlden(f, v0, v1) ==
    Statistics(
        TrueDiv(SumInt(Masked(f, "num", v0)), SumInt(Masked(f, "den", v0))),
        TrueDiv(SumInt(Masked(f, "num", v1)), SumInt(Masked(f, "den", v0))),
        Var(Masked(f, "l_ratio", v0)),
        Var(Masked(f, "l_ratio", v1)),
        SumInt(Masked(f, "n", v0)),
        SumInt(Masked(f, "n", v1)),
        Masked(f, "num", v0), Masked(f, "num", v1),
        Masked(f, "den", v0), Masked(f, "den", v1))

\* the reductions of BaseStatsRatio over the linearized frame f
RatioStatistics(f, v0, v1) ==
    Statistics(
        TrueDiv(SumInt(Masked(f, "num", v0)), SumInt(Masked(f, "den", v0))),
        TrueDiv(SumInt(Masked(f, "num", v1)), SumInt(Masked(f, "den", v1))),
        Var(Masked(f, "l_ratio", v0)),
        Var(Masked(f, "l_ratio", v1)),
        SumInt(Masked(f, "n", v0)),
        SumInt(Masked(f, "n", v1)),
        Masked(f, "num", v0), Masked(f, "num", v1),
        Masked(f, "den", v0), Masked(f, "den", v1))

\* df = calculate_linearization(df) rebinds df to the object it was given
RatioOnLinearized(lin, _unique_variants) ==
    [stat |-> RatioStatistics(lin.df, _unique_variants[1], _unique_variants[2]),
     df |-> lin.df,
     calls |-> <<"BaseStatsRatio">> \o lin.calls]

BaseStatsRatio(d) ==
    RatioOnLinearized(calculate_linearization(d), Unique(d[VARIANT_COL]))

\* mutant of UserLevelStatistics: n_0 sums the n of every row
UserLevelStatistics_alln(d, v0, v1) ==
    Statistics(
        Float(SumInt(Masked(d, "num", v0))),
        Float(SumInt(Masked(d, "num", v1))),
        Var(ToFloat(Masked(d, "num", v0))),
        Var(ToFloat(Masked(d, "num", v1))),
        SumInt(d["n"]),
        SumInt(Masked(d, "n", v1)),
        Masked(d, "num", v0), Masked(d, "num", v1),
        None, None)

\* the reductions of BaseStatsUserLevel
UserLevelStatistics(d, v0, v1) ==
    Statistics(
        Float(SumInt(Masked(d, "num", v0))),
        Float(SumInt(Masked(d, "num", v1))),
        Var(ToFloat(Masked(d, "num", v0))),
        Var(ToFloat(Masked(d, "num", v1))),
        SumInt(Masked(d, "n", v0)),
        SumInt(Masked(d, "n", v1)),
        Masked(d, "num", v0), Masked(d, "num", v1),
        None, None)

\* mutant of BernoulliStatistics: the means divide by the number of rows
BernoulliStatistics_rowcount(d, v0, v1) ==
    Statistics(
        TrueDiv(SumInt(Masked(d, "num", v0)), Len(Masked(d, "n", v0))),
        TrueDiv(SumInt(Masked(d, "num", v1)), Len(Masked(d, "n", v1))),
        Var(ToFloat(Masked(d, "num", v0))),
        Var(ToFloat(Masked(d, "num", v1))),
        SumInt(Masked(d, "n", v0)),
        SumInt(Masked(d, "n", v1)),
        Masked(d, "num", v0), Masked(d, "num", v1),
        None, None)

\* the reductions of BaseStatsBernoulli
BernoulliStatistics(d, v0, v1) ==
    Statistics(
        TrueDiv(SumInt(Masked(d, "num", v0)), SumInt(Masked(d, "n", v0))),
        TrueDiv(SumInt(Masked(d, "num", v1)), SumInt(Masked(d, "n", v1))),
        Var(ToFloat(Masked(d, "num", v0))),
        Var(ToFloat(Masked(d, "num", v1))),
        SumInt(Masked(d, "n", v0)),
        SumInt(Masked(d, "n", v1)),
        Masked(d, "num", v0), Masked(d, "num", v1),
        None, None)

BaseStatsUserLevel(d) ==
    [stat |-> UserLevelStatistics(d, Unique(d[VARIANT_COL])[1],
                                  Unique(d[VARIANT_COL])[2]),
     df |-> d,
     calls |-> <<"BaseStatsUserLevel">>]

BaseStatsBernoulli(d) ==
    [stat |-> BernoulliStatistics(d, Unique(d[VARIANT_COL])[1],
                                  Unique(d[VARIANT_COL])[2]),
     df |-> d,
     calls |-> <<"BaseStatsBernoulli">>]

\* --------------------------------------------------------------- dispatch
\* mutant of mappings: the bernoulli and user-level entries exchanged
mappings_swapped ==
    [t \in {"ratio", "bernoulli", "user-level"} |->
        CASE t = "ratio" -> "BaseStatsRatio"
          [] t = "bernoulli" -> "BaseStatsUserLevel"
          [] t = "user-level" -> "BaseStatsBernoulli"]

\* the mappings dict of calculate_statistics: label -> aggregator
mappings ==
    [t \in {"ratio", "bernoulli", "user-level"} |->
        CASE t = "ratio" -> "BaseStatsRatio"
          [] t = "bernoulli" -> "BaseStatsBernoulli"
          [] t = "user-level" -> "BaseStatsUserLevel"]

\* calculate_method(df)
CallAggregator(m, d) ==
    CASE m = "BaseStatsRatio" -> BaseStatsRatio(d)
      [] m = "BaseStatsBernoulli" -> BaseStatsBernoulli(d)
      [] m = "BaseStatsUserLevel" -> BaseStatsUserLevel(d)

\* the labels a caller may pass; "cuped" is no key of mappings
TypeLabels == {"ratio", "bernoulli", "user-level", "cuped"}

\* ------------------------------------------------------------------ input
Frame(vs, rs) ==
    [c \in {VARIANT_COL, "num", "den", "n"} |->
        CASE c = VARIANT_COL -> vs
          [] c = "num" -> [i \in 1 .. Len(rs) |-> rs[i][1]]
          [] c = "den" -> [i \in 1 .. Len(rs) |-> rs[i][2]]
          [] c = "n" -> [i \in 1 .. Len(rs) |-> rs[i][3]]]

\* df is a frame over the rows R with exactly two distinct variant values
IsFrameOver(R) ==
    \E m \in 2 .. MaxRows :
        \E vs \in [1 .. m -> Variants], rs \in [1 .. m -> R] :
            /\ {vs[i] : i \in 1 .. m} = Variants
            /\ df = Frame(vs, rs)

NoStat == Statistics(NaN, NaN, NaN, NaN, 0, 0, <<>>, <<>>, None, None)

NoLib == [raised |-> FALSE, statistic |-> None, pvalue |-> None]

Init ==
    /\ IsFrameOver(RowVals)
    /\ df0 = df
    /\ type = None
    /\ pc = "start"
    /\ stat = NoStat
    /\ calls = <<>>
    /\ lib = NoLib
    /\ est = EstimatorCriteriaValues(None, None)
    /\ log = <<>>

\* return calculate_method(df): the caller holds the frame the aggregator
\* worked on
Returned(r) ==
    /\ pc' = "returned"
    /\ df' = r.df
    /\ stat' = r.stat
    /\ calls' = r.calls

\* calculate_statistics(df, type): a label that is no key of mappings raises
\* KeyError at the lookup, before calculate_method is called
calculate_statistics(t) ==
    /\ pc = "start"
    /\ type' = t
    /\ IF t \notin DOMAIN mappings
       THEN /\ pc' = "KeyError"
            /\ UNCHANGED <<df, stat, calls>>
       ELSE Returned(CallAggregator(mappings[t], df))
    /\ UNCHANGED <<df0, lib, est, log>>

Next == \E t \in TypeLabels : calculate_statistics(t)

Spec == Init /\ [][Next]_vars

\* -------------------------------------------------------------- estimators
\* what a library test does with its arguments is outside this program: it
\* raises, or it returns a (statistic, pvalue) pair, which may be nan
LibStatistics == {"nan", "s1"}
LibPvalues == {"nan", "p1"}

LibOutcomes ==
    {[raised |-> TRUE, statistic |-> None, pvalue |-> None]} \cup
    {[raised |-> FALSE, statistic |-> s, pvalue |-> p] :
        s \in LibStatistics, p \in LibPvalues}

\* mutant of TTestFromStats_call: the handler swallows the exception unlogged
TTestFromStats_call_unlogged(out, lg) ==
    IF out.raised
    THEN [est |-> EstimatorCriteriaValues(None, None), log |-> lg]
    ELSE [est |-> EstimatorCriteriaValues(out.pvalue, out.statistic), log |-> lg]

\* try: statistic, pvalue = <library test>; except Exception: log the error
\* and set both to None; return EstimatorCriteriaValues(pvalue, statistic)
TTestFromStats_call(out, lg) ==
    IF out.raised
    THEN [est |-> EstimatorCriteriaValues(None, None), log |-> Append(lg, "error")]
    ELSE [est |-> EstimatorCriteriaValues(out.pvalue, out.statistic), log |-> lg]

MannWhitney_call(out, lg) ==
    IF out.raised
    THEN [est |-> EstimatorCriteriaValues(None, None), log |-> Append(lg, "error")]
    ELSE [est |-> EstimatorCriteriaValues(out.pvalue, out.statistic), log |-> lg]

ProportionsZtest_call(out, lg) ==
    IF out.raised
    THEN [est |-> EstimatorCriteriaValues(None, None), log |-> Append(lg, "error")]
    ELSE [est |-> EstimatorCriteriaValues(out.pvalue, out.statistic), log |-> lg]

\* the estimator has returned r after the library call out
Estimated(name, out, r) ==
    /\ pc' = "estimated"
    /\ calls' = Append(calls, name)
    /\ lib' = out
    /\ est' = r.est
    /\ log' = r.log
    /\ UNCHANGED <<df, df0, type, stat>>

TTestFromStats ==
    /\ pc = "returned"
    /\ \E out \in LibOutcomes :
           Estimated("TTestFromStats", out, TTestFromStats_call(out, log))

MannWhitney ==
    /\ pc = "returned"
    /\ \E out \in LibOutcomes :
           Estimated("MannWhitney", out, MannWhitney_call(out, log))

ProportionsZtest ==
    /\ pc = "returned"
    /\ \E out \in LibOutcomes :
           Estimated("ProportionsZtest", out, ProportionsZtest_call(out, log))

\* the caller holds the Statistics record of a frame
HoldsStatistics(r, t) ==
    /\ type = t
    /\ pc = "returned"
    /\ stat = r.stat
    /\ df0 = df
    /\ calls = <<>>
    /\ lib = NoLib
    /\ est = EstimatorCriteriaValues(None, None)
    /\ log = <<>>

InitEst ==
    /\ IsFrameOver(EstRowVals)
    /\ \E t \in DOMAIN mappings : HoldsStatistics(CallAggregator(mappings[t], df), t)

NextEst == TTestFromStats \/ MannWhitney \/ ProportionsZtest

SpecEst == InitEst /\ [][NextEst]_vars

\* ================================================================ claims
\* What the claims say is computed here from df0, the frame as the caller
\* passed it, by set arithmetic over row positions.

Rows(d) == 1 .. Len(d[VARIANT_COL])

\* the first distinct variant value in row order, and the other one
FirstVariant(d) == d[VARIANT_COL][1]

SecondVariant(d) ==
    CHOOSE v \in {d[VARIANT_COL][i] : i \in Rows(d)} : v # FirstVariant(d)

RowsOf(d, v) == {i \in Rows(d) : d[VARIANT_COL][i] = v}

RECURSIVE SetSum(_, _)
SetSum(c, S) ==
    IF S = {} THEN 0
    ELSE LET i == CHOOSE j \in S : TRUE IN c[i] + SetSum(c, S \ {i})

\* r is the float a / b, for b # 0
IsQuotient(r, a, b) == r[2] > 0 /\ r[1] * b = r[2] * a

\* s holds the entries of column c at the rows S, in row order
IsRowsInOrder(s, c, S) ==
    /\ Len(s) = Cardinality(S)
    /\ \A i \in S : s[Cardinality({j \in S : j <= i})] = c[i]

\* r is the sample variance of y[i] / scale over the rows S (nan under two rows)
IsSampleVar(r, y, S, scale) ==
    LET m == Cardinality(S)
        sum == SetSum(y, S)
        sumsq == SetSum([i \in DOMAIN y |-> y[i] * y[i]], S)
    IN  IF m < 2 THEN r = NaN
        ELSE /\ r[2] > 0
             /\ r[1] * (m * (m - 1) * scale * scale) = r[2] * (m * sumsq - sum * sum)

Returned_(t) == pc = "returned" /\ type = t

SomeDenNotN(d) == \E i \in Rows(d) : d["den"][i] # d["n"][i]

\* sum(num) and sum(den) over the rows of the first-encountered variant
ControlNum(d) == SetSum(d["num"], RowsOf(d, FirstVariant(d)))

ControlDen(d) == SetSum(d["den"], RowsOf(d, FirstVariant(d)))

\* x is num - k * den of row i, with k = ControlNum / ControlDen
IsLinearized(x, d, i) ==
    IsQuotient(x, d["num"][i] * ControlDen(d) - ControlNum(d) * d["den"][i],
               ControlDen(d))

\* C1: on a two-variant frame with some row den # n and a non-zero sum of
\* den over the first-encountered variant, the ratio aggregation leaves
\* l_ratio = num - k * den on every row of both variants, where k is
\* sum(num) / sum(den) over the rows of the first-encountered variant only.
C1_LinearizedFromControl ==
    (Returned_("ratio") /\ SomeDenNotN(df0) /\ ControlDen(df0) # 0)
        => \A i \in Rows(df0) : IsLinearized(df["l_ratio"][i], df0, i)

C1_Witness ==
    /\ Returned_("ratio") /\ SomeDenNotN(df0) /\ ControlDen(df0) # 0
    /\ ControlNum(df0) # 0
    /\ \E i \in RowsOf(df0, SecondVariant(df0)) :
           df0["den"][i] # 0 /\ df["l_ratio"][i][2] > 1

\* C2: when den = n on every row, l_ratio equals num on every row and
\* Linearization (the division by sum(den_0)) is never called; when some
\* row has den # n, the skip path is taken for no row: Linearization is
\* called and supplies l_ratio of every row.
C2_SkipPath ==
    Returned_("ratio") =>
        IF \A i \in Rows(df0) : df0["den"][i] = df0["n"][i]
        THEN /\ \A i \in Rows(df0) : df["l_ratio"][i] = <<df0["num"][i], 1>>
             /\ calls = <<"BaseStatsRatio", "calculate_linearization">>
        ELSE /\ calls = <<"BaseStatsRatio", "calculate_linearization", "Linearization">>
             /\ ControlDen(df0) # 0 =>
                    \A i \in Rows(df0) : IsLinearized(df["l_ratio"][i], df0, i)

C2_Witness ==
    /\ Returned_("ratio")
    /\ \A i \in Rows(df0) : df0["den"][i] = df0["n"][i]
    /\ \E i \in Rows(df0) : df0["n"][i] = 2
    /\ \E i \in Rows(df0) : df["l_ratio"][i] = <<2, 1>>

\* C3: every estimator call returns an EstimatorCriteriaValues; statistic
\* and pvalue are both None exactly when the library test raised, otherwise
\* they are the statistic and the pvalue the library returned; one error is
\* logged when it raised and none when it returned.
C3_SoftFailure ==
    pc = "estimated" =>
        /\ (est.statistic = None) <=> lib.raised
        /\ (est.pvalue = None) <=> lib.raised
        /\ ~lib.raised => est.statistic = lib.statistic /\ est.pvalue = lib.pvalue
        /\ log = IF lib.raised THEN <<"error">> ELSE <<>>

C3_Witness ==
    /\ pc = "estimated"
    /\ lib.raised
    /\ calls = <<"TTestFromStats">>
    /\ est = [pvalue |-> None, statistic |-> None]
    /\ Len(log) = 1

\* C4: a label outside {"ratio", "bernoulli", "user-level"} ends the call in
\* a KeyError with no aggregator called, the frame untouched and no
\* Statistics record; a label inside it calls exactly its own aggregator.
C4_Dispatch ==
    pc # "start" =>
        IF type \notin {"ratio", "bernoulli", "user-level"}
        THEN pc = "KeyError" /\ calls = <<>> /\ df = df0 /\ stat = NoStat
        ELSE /\ pc = "returned"
             /\ calls[1] = CASE type = "ratio" -> "BaseStatsRatio"
                             [] type = "bernoulli" -> "BaseStatsBernoulli"
                             [] type = "user-level" -> "BaseStatsUserLevel"
             /\ \A j \in 2 .. Len(calls) :
                    calls[j] \notin {"BaseStatsRatio", "BaseStatsBernoulli",
                                     "BaseStatsUserLevel"}

C4_Witness == pc = "KeyError" /\ type = "cuped" /\ df = df0

\* the _0 or _1 fields of stat are the reductions of the rows S of df0
\* under the metric type t, the linearization taking k from the rows K
IsStatisticsOf(mean, var, n, num, den, t, S, K) ==
    LET d == df0
        N == SetSum(d["num"], K)
        D == SetSum(d["den"], K)
        skip == ~SomeDenNotN(d)
    IN  /\ n = SetSum(d["n"], S)
        /\ IsRowsInOrder(num, d["num"], S)
        /\ CASE t = "ratio" ->
                  /\ IsRowsInOrder(den, d["den"], S)
                  /\ SetSum(d["den"], S) # 0 =>
                         IsQuotient(mean, SetSum(d["num"], S), SetSum(d["den"], S))
                  /\ IF skip THEN IsSampleVar(var, d["num"], S, 1)
                     ELSE IF D = 0 THEN var = NaN
                     ELSE IsSampleVar(var,
                              [i \in Rows(d) |-> d["num"][i] * D - N * d["den"][i]],
                              S, D)
             [] t = "bernoulli" ->
                  /\ den = None
                  /\ IsQuotient(mean, SetSum(d["num"], S), SetSum(d["n"], S))
                  /\ IsSampleVar(var, d["num"], S, 1)
             [] t = "user-level" ->
                  /\ den = None
                  /\ mean = <<SetSum(d["num"], S), 1>>
                  /\ IsSampleVar(var, d["num"], S, 1)

\* C5: for each aggregator, the _0 fields are computed from exactly the rows
\* of the first distinct variant value in row order and the _1 fields from
\* the rows of the second; the ratio aggregator's linearization takes k
\* from the rows of the variant reported as _0.
C5_VariantOrder ==
    pc = "returned" =>
        LET S0 == RowsOf(df0, FirstVariant(df0))
            S1 == RowsOf(df0, SecondVariant(df0))
        IN  /\ IsStatisticsOf(stat.mean_0, stat.var_0, stat.n_0, stat.num_0,
                              stat.den_0, type, S0, S0)
            /\ IsStatisticsOf(stat.mean_1, stat.var_1, stat.n_1, stat.num_1,
                              stat.den_1, type, S1, S0)

C5_Witness ==
    /\ Returned_("ratio")
    /\ FirstVariant(df0) = "B"
    /\ SomeDenNotN(df0)
    /\ stat.n_0 # stat.n_1
    /\ stat.mean_0 # stat.mean_1
    /\ IsFinite(stat.var_0) /\ stat.var_0 # <<0, 1>>

\* C6: after calculate_statistics returns, the caller's frame has the
\* columns and the values it had before the call.
C6_CallerFrameUnchanged == pc = "returned" => df = df0

\* C7: for the Bernoulli aggregator, mean_i = sum(num_i) / n_i with n_i the
\* sum of n over the variant's rows, and mean_i is in [0, 1] whenever every
\* num of the variant is 0 or 1.
C7_BernoulliMean ==
    Returned_("bernoulli") =>
        LET S0 == RowsOf(df0, FirstVariant(df0))
            S1 == RowsOf(df0, SecondVariant(df0))
            ok(mean, n, S) ==
                /\ n = SetSum(df0["n"], S)
                /\ IsQuotient(mean, SetSum(df0["num"], S), n)
                /\ (\A i \in S : df0["num"][i] \in {0, 1})
                       => RLeq(<<0, 1>>, mean) /\ RLeq(mean, <<1, 1>>)
        IN  ok(stat.mean_0, stat.n_0, S0) /\ ok(stat.mean_1, stat.n_1, S1)

C7_Witness ==
    /\ Returned_("bernoulli")
    /\ \A i \in Rows(df0) : df0["num"][i] \in {0, 1}
    /\ \E i \in RowsOf(df0, FirstVariant(df0)) : df0["n"][i] = 2
    /\ stat.mean_0 = <<1, 3>>

\* C8: for the ratio aggregator, mean_i = sum(num_i) / sum(den_i) over the
\* variant's own rows (where that sum of den is not zero), on the skip path
\* and on the linearization path alike; the num and den of the frame and of
\* the Statistics record are the values the caller passed.
C8_RatioMean ==
    Returned_("ratio") =>
        LET S0 == RowsOf(df0, FirstVariant(df0))
            S1 == RowsOf(df0, SecondVariant(df0))
            ok(mean, num, den, S) ==
                /\ SetSum(df0["den"], S) # 0 =>
                       IsQuotient(mean, SetSum(df0["num"], S), SetSum(df0["den"], S))
                /\ IsRowsInOrder(num, df0["num"], S)
                /\ IsRowsInOrder(den, df0["den"], S)
        IN  /\ ok(stat.mean_0, stat.num_0, stat.den_0, S0)
            /\ ok(stat.mean_1, stat.num_1, stat.den_1, S1)
            /\ df["num"] = df0["num"] /\ df["den"] = df0["den"]

C8_Witness ==
    /\ Returned_("ratio")
    /\ "Linearization" \in {calls[j] : j \in 1 .. Len(calls)}
    /\ ControlDen(df0) # 0
    /\ SetSum(df0["den"], RowsOf(df0, SecondVariant(df0))) \notin {0, ControlDen(df0)}
    /\ stat.mean_1 = <<3, 4>>

\* C9: on a frame with n = 1 on every row, len(num_i) = n_i for every
\* aggregator and len(den_i) = n_i for the ratio aggregator, and the
\* retained sequences are the variant's rows in their original order.
C9_RetainedLengths ==
    (pc = "returned" /\ \A i \in Rows(df0) : df0["n"][i] = 1) =>
        LET S0 == RowsOf(df0, FirstVariant(df0))
            S1 == RowsOf(df0, SecondVariant(df0))
        IN  /\ Len(stat.num_0) = stat.n_0 /\ Len(stat.num_1) = stat.n_1
            /\ IsRowsInOrder(stat.num_0, df0["num"], S0)
            /\ IsRowsInOrder(stat.num_1, df0["num"], S1)
            /\ type = "ratio" =>
                   /\ Len(stat.den_0) = stat.n_0 /\ Len(stat.den_1) = stat.n_1
                   /\ IsRowsInOrder(stat.den_0, df0["den"], S0)
                   /\ IsRowsInOrder(stat.den_1, df0["den"], S1)

C9_Witness ==
    /\ Returned_("ratio")
    /\ \A i \in Rows(df0) : df0["n"][i] = 1
    /\ stat.n_0 = 1 /\ stat.n_1 = 2
    /\ stat.num_1 = <<2, 1>> /\ stat.den_1 = <<1, 0>>

====
